---- MODULE Spec2Model ----
(***************************************************************************)
(* gitu: walk the tree below the current directory, start one bounded      *)
(* goroutine per repository (a directory holding a .git directory), run    *)
(* the four checks on it, pull when all pass, and print the five lists     *)
(* after every goroutine has finished.  Modelled from src/gitu/main.go.    *)
(***************************************************************************)
EXTENDS Naturals, Integers, Sequences, FiniteSets, TLC

VARIABLES
    config,          \* Config{Branch, Parallelism}
    currentDir,      \* os.Getwd(): the path of the root of the walk
    tree,            \* the directory tree below currentDir: a set of entries
    errAt,           \* the entry whose lstat/readdir fails (NoPath: none)
    git,             \* the results each git command can give in each repository
    mpc,             \* position of main: walk, send, fatal, wait, print, exit
    cur,             \* the entry filepath.Walk hands to the callback next
    walkErr,         \* err returned by filepath.Walk is non-nil
    visited,         \* the entries the callback has been called with, in order
    wg,              \* sync.WaitGroup counter
    sem,             \* number of tokens in the channel sem
    mu,              \* holder of the mutex mu (NoPath: unlocked)
    printMu,         \* holder of the mutex printMu (NoPath: unlocked)
    repoStatus,      \* repoStatusStruct: the five lists of project names
    pc,              \* position of the goroutine of each repository
    idx,             \* index of the check the goroutine is at (1..4)
    allChecksPassed, \* local of processRepository
    res,             \* raw result of each external command run for a repository
    appended,        \* the lists each goroutine has appended to, in order
    printed,         \* what printResults was given (Nothing before the call)
    invocations,     \* how many times the program is run on the tree
    reports          \* what the earlier runs printed, in order

vars == <<config, currentDir, tree, errAt, git, mpc, cur, walkErr, visited,
          wg, sem, mu, printMu,
          repoStatus, pc, idx, allChecksPassed, res, appended, printed,
          invocations, reports>>

(***************************************************************************)
(* Bounds of the model.                                                    *)
(***************************************************************************)
MaxParallelism == 2

MaxInvocations == 2

(***************************************************************************)
(* Strings are sequences of tokens, so that trimming and substring search  *)
(* are computed.                                                           *)
(***************************************************************************)
\* The white space of unicode.IsSpace, one token for each character; those
\* that cannot be written in a string are named by their code point.
IsSpace(t) ==
    t \in {"\t", "\n", "U+000B", "\f", "\r", " ", "U+0085", "U+00A0",
           "U+1680", "U+2000", "U+2001", "U+2002", "U+2003", "U+2004",
           "U+2005", "U+2006", "U+2007", "U+2008", "U+2009", "U+200A",
           "U+2028", "U+2029", "U+202F", "U+205F", "U+3000"}

RECURSIVE TrimLeft(_)
TrimLeft(s) ==
    IF s = <<>> THEN <<>>
    ELSE IF IsSpace(Head(s)) THEN TrimLeft(Tail(s)) ELSE s

RECURSIVE TrimRight(_)
TrimRight(s) ==
    IF s = <<>> THEN <<>>
    ELSE IF IsSpace(s[Len(s)]) THEN TrimRight(SubSeq(s, 1, Len(s) - 1)) ELSE s

TrimSpace(s) == TrimRight(TrimLeft(s))

Contains(s, substr) ==
    \E k \in 0..(Len(s) - Len(substr)) :
        SubSeq(s, k + 1, k + Len(substr)) = substr

(***************************************************************************)
(* Paths are sequences of names; the paths of the tree are relative to     *)
(* currentDir, the root of the walk.                                       *)
(***************************************************************************)
NoPath == <<"-">>

Root == <<>>

\* The directory above currentDir, as a path relative to currentDir.
Parent == <<"..">>

\* The current directory is an ordinary directory, or the .git directory
\* of a repository.
OrdinaryDir == <<"w", "src">>

InsideGitDir == <<"w", ".git">>

\* The directories of the trees that are walked with every combination of
\* .git entries, and all directories that may be repositories.
WalkDirs == {<<"a">>, <<"a", "b">>, <<"b">>}

RepoDirs == WalkDirs \cup {<<"c">>, <<"d">>, Parent}

GitKinds == {"none", "dir", "file"}

\* filepath.Base and filepath.Dir of a path that is not empty.
Base(path) == path[Len(path)]

Dir(path) == SubSeq(path, 1, Len(path) - 1)

\* The path the callback is handed for an entry of the tree.
FullPath(dir, path) == dir \o path

\* The tree of the directories in the domain of gitKind, in which directory
\* d holds a .git directory, a .git file or no .git at all, as gitKind[d]
\* says; a .git directory holds a file HEAD.
TreeOf(gitKind) ==
    {[path |-> Root, isDir |-> TRUE]}
    \cup {[path |-> d, isDir |-> TRUE] : d \in DOMAIN gitKind}
    \cup {[path |-> d \o <<".git">>, isDir |-> gitKind[d] = "dir"] :
            d \in {x \in DOMAIN gitKind : gitKind[x] # "none"}}
    \cup {[path |-> d \o <<".git", "HEAD">>, isDir |-> FALSE] :
            d \in {x \in DOMAIN gitKind : gitKind[x] = "dir"}}

PathsOf(t) == {e.path : e \in t}

IsDirIn(t, path) == \E e \in t : e.path = path /\ e.isDir

\* Names sort bytewise: ".git" < "HEAD" < "a" < "b" < "c" < "d".
Rank(name) ==
    CASE name = ".git" -> 0
      [] name = "HEAD" -> 1
      [] name = "a" -> 2
      [] name = "b" -> 3
      [] name = "c" -> 4
      [] name = "d" -> 5

IsPrefix(p, q) == Len(p) <= Len(q) /\ SubSeq(q, 1, Len(p)) = p

\* p is walked before q: filepath.Walk visits a directory, then its entries
\* in lexical order, each with everything below it.
RECURSIVE PathLess(_, _)
PathLess(p, q) ==
    IF q = <<>> THEN FALSE
    ELSE IF p = <<>> THEN TRUE
    ELSE IF Head(p) # Head(q) THEN Rank(Head(p)) < Rank(Head(q))
    ELSE PathLess(Tail(p), Tail(q))

\* The entry filepath.Walk visits after path; with skip (the callback
\* returned filepath.SkipDir for the directory path) nothing below path.
NextEntry(t, path, skip) ==
    LET later == {q \in PathsOf(t) :
                    PathLess(path, q) /\ (skip => ~IsPrefix(path, q))}
    IN  IF later = {} THEN NoPath
        ELSE CHOOSE q \in later : \A o \in later : o = q \/ PathLess(q, o)

(***************************************************************************)
(* External commands.  A raw result is what the child process gave: err is *)
(* a non-zero exit, a timeout or a spawn failure, out is its stdout, exits  *)
(* tells whether the process ends on its own, and eof whether its stdout   *)
(* and stderr pipes are closed once the process has ended or been killed.  *)
(***************************************************************************)
Commands == {"rev-parse", "status", "cherry", "fetch", "status-uno", "pull"}

NotRun ==
    [ran |-> FALSE, exits |-> TRUE, eof |-> TRUE, err |-> FALSE, out |-> <<>>]

Failed ==
    [ran |-> TRUE, exits |-> TRUE, eof |-> TRUE, err |-> TRUE, out |-> <<>>]

Ok(out) ==
    [ran |-> TRUE, exits |-> TRUE, eof |-> TRUE, err |-> FALSE, out |-> out]

\* A process that never exits on its own; waiting for it gives an error
\* once something kills it.
Hangs ==
    [ran |-> TRUE, exits |-> FALSE, eof |-> TRUE, err |-> TRUE, out |-> <<>>]

\* A process that never exits on its own and whose pipes stay open when it
\* is killed, held by a process it started (ssh, a remote or credential
\* helper), or that cannot be killed at all.
HoldsPipes ==
    [ran |-> TRUE, exits |-> FALSE, eof |-> FALSE, err |-> TRUE, out |-> <<>>]

UpToDateText == <<"Your branch is ", "up to date">>

Results(cmd) ==
    CASE cmd = "rev-parse" ->
            {Failed, Ok(<<"master", "\n">>), Ok(<<"dev", "\n">>),
             Ok(<<"master", "U+00A0", "\n">>)}
      [] cmd = "status" ->
            {Failed, Ok(<<>>), Ok(<<" ", "M", " ", "f", "\n">>)}
      [] cmd = "cherry" ->
            {Failed, Ok(<<>>), Ok(<<"+ c1", "\n">>)}
      [] cmd = "fetch" ->
            {Failed, Ok(<<>>), Ok(<<"Fetching origin", "\n">>)}
      [] cmd = "status-uno" ->
            {Failed,
             Ok(<<"On branch master", "\n", "Your branch is ", "up to date",
                  " with 'origin/master'.", "\n">>),
             Ok(<<"On branch master", "\n", "Your branch is ", "behind",
                  " 'origin/master' by 1 commit.", "\n">>)}
      [] cmd = "pull" ->
            {Failed, Ok(<<"Updating", "\n">>)}

\* Any result is possible: non-zero exit or timeout, empty or non-empty stdout.
AnyResult == [c \in Commands |-> Results(c)]

\* A repository on master that is clean and has nothing to push; the branch
\* inspection may fail, the remote and the pull vary.
CleanTree ==
    [c \in Commands |->
        CASE c = "rev-parse" -> {Failed, Ok(<<"master", "\n">>)}
          [] c \in {"status", "cherry"} -> {Ok(<<>>)}
          [] c \in {"fetch", "status-uno"} -> Results(c) \ {Failed}
          [] c = "pull" -> Results(c)]

\* A clean repository on master that is up to date with its remote.
UpToDate ==
    [c \in Commands |->
        CASE c = "rev-parse" -> {Ok(<<"master", "\n">>)}
          [] c \in {"status", "cherry", "fetch"} -> {Ok(<<>>)}
          [] c = "status-uno" ->
                {x \in Results(c) : Contains(x.out, UpToDateText)}
          [] c = "pull" -> {Ok(<<"Updating", "\n">>)}]

\* A clean repository on master that is up to date with its remote, whether
\* or not the fetch writes to its stdout.
StaysUpToDate ==
    [c \in Commands |->
        CASE c = "rev-parse" -> {Ok(<<"master", "\n">>)}
          [] c \in {"status", "cherry"} -> {Ok(<<>>)}
          [] c = "fetch" -> {Ok(<<>>), Ok(<<"Fetching origin", "\n">>)}
          [] c = "status-uno" ->
                {x \in Results(c) : Contains(x.out, UpToDateText)}
          [] c = "pull" -> {Ok(<<"Updating", "\n">>)}]

\* A clean repository on master that is behind its remote; the branch
\* inspection, the status inspection and the pull may never exit, and the
\* fetch may never exit with its pipes held open.
MayHang ==
    [c \in Commands |->
        CASE c = "rev-parse" -> {Hangs, Ok(<<"master", "\n">>)}
          [] c \in {"status", "cherry"} -> {Ok(<<>>)}
          [] c = "fetch" -> {HoldsPipes, Ok(<<"Fetching origin", "\n">>)}
          [] c = "status-uno" ->
                {Hangs} \cup {x \in Results(c) :
                                ~x.err /\ ~Contains(x.out, UpToDateText)}
          [] c = "pull" -> {Hangs, Ok(<<"Updating", "\n">>)}]

\* Repositories on master: a is clean with nothing to pull, b has an
\* uncommitted change, c has two commits that are not pushed, both with
\* nothing to pull, and d is clean with new commits on its remote and a
\* pull that succeeds; a fetch that brings something may write to stdout.
FourRepos ==
    [r \in RepoDirs |->
        [c \in Commands |->
            CASE c = "rev-parse" -> {Ok(<<"master", "\n">>)}
              [] c = "status" ->
                    IF r = <<"b">> THEN {Ok(<<" ", "M", " ", "f", "\n">>)}
                    ELSE {Ok(<<>>)}
              [] c = "cherry" ->
                    IF r = <<"c">>
                    THEN {Ok(<<"+ c1", "\n", "+ c2", "\n">>)}
                    ELSE {Ok(<<>>)}
              [] c = "fetch" ->
                    IF r = <<"d">>
                    THEN {Ok(<<>>), Ok(<<"Fetching origin", "\n">>)}
                    ELSE {Ok(<<>>)}
              [] c = "status-uno" ->
                    {x \in Results(c) :
                        ~x.err /\ (Contains(x.out, UpToDateText) <=> r # <<"d">>)}
              [] c = "pull" -> {Ok(<<"Updating", "\n">>)}]]

Branches == {<<"master">>, <<>>}

\* executeGitCommand waits under context.WithTimeout(..., 10*time.Second):
\* the process exits or is killed at the deadline, and cmd.Output() returns
\* when, after that, the copies of its stdout and stderr have seen EOF.
executeWaitEnds(raw) == raw.eof

\* gitPull waits in cmd.Run() of an exec.Command without a context: the
\* wait ends when the process has exited and the copies of its stdout and
\* stderr have seen EOF.
pullWaitEnds(raw) == raw.exits /\ raw.eof

\* executeGitCommand: "" on any error, else the trimmed stdout.
executeGitCommand(raw) == IF raw.err THEN <<>> ELSE TrimSpace(raw.out)

\* The comparison made on the output as the child process wrote it.
notOnBranch_untrimmed(raw, branchName) == raw.out # branchName

notOnBranch(raw, branchName) == executeGitCommand(raw) # branchName

hasUncommittedChanges(raw) == executeGitCommand(raw) # <<>>

hasUnpushedCommits(raw) == executeGitCommand(raw) # <<>>

\* noRemoteUpdates returns true right after the fetch when that gave "".
fetchGaveNothing(rawFetch) == executeGitCommand(rawFetch) = <<>>

\* A search for the text git pull prints when there is nothing to merge.
noRemoteUpdates_wrong_needle(rawFetch, rawStatus) ==
    IF fetchGaveNothing(rawFetch) THEN TRUE
    ELSE Contains(executeGitCommand(rawStatus), <<"Already ", "up to date">>)

noRemoteUpdates(rawFetch, rawStatus) ==
    IF fetchGaveNothing(rawFetch) THEN TRUE
    ELSE Contains(executeGitCommand(rawStatus), UpToDateText)

\* A pull whose error is dropped.
gitPull_ignores_error(raw) == TRUE

\* A pull that reports success exactly when cmd.Run() returned an error.
gitPull_inverted(raw) == raw.err

\* gitPull: cmd.Run() returned no error.
gitPull(raw) == ~raw.err

(***************************************************************************)
(* The checks of processRepository and the lists they append to.           *)
(***************************************************************************)
notOnBranchMsg == 0
hasUncommittedChangesMsg == 1
hasUnpushedCommitsMsg == 2
noRemoteUpdatesMsg == 3

\* The slice with its second and third elements exchanged.
checks_swapped ==
    << [cmd |-> "rev-parse", msg |-> notOnBranchMsg],
       [cmd |-> "cherry", msg |-> hasUnpushedCommitsMsg],
       [cmd |-> "status", msg |-> hasUncommittedChangesMsg],
       [cmd |-> "fetch", msg |-> noRemoteUpdatesMsg] >>

\* checks[i].msg, and the command checks[i].fail runs first.
checks ==
    << [cmd |-> "rev-parse", msg |-> notOnBranchMsg],
       [cmd |-> "status", msg |-> hasUncommittedChangesMsg],
       [cmd |-> "cherry", msg |-> hasUnpushedCommitsMsg],
       [cmd |-> "fetch", msg |-> noRemoteUpdatesMsg] >>

CheckCategories ==
    {"notOnBranch", "uncommittedChanges", "unpushedCommits", "noUpdates"}

Categories == CheckCategories \cup {"updatedRepos"}

\* A switch whose third case appends to the list of the second.
ListOf_wrong_case(msg) ==
    CASE msg = notOnBranchMsg -> "notOnBranch"
      [] msg = hasUncommittedChangesMsg -> "uncommittedChanges"
      [] msg = hasUnpushedCommitsMsg -> "uncommittedChanges"
      [] msg = noRemoteUpdatesMsg -> "noUpdates"

\* The switch on check.msg: the list a failed check appends to.
ListOf(msg) ==
    CASE msg = notOnBranchMsg -> "notOnBranch"
      [] msg = hasUncommittedChangesMsg -> "uncommittedChanges"
      [] msg = hasUnpushedCommitsMsg -> "unpushedCommits"
      [] msg = noRemoteUpdatesMsg -> "noUpdates"

UpdatedIdx == Len(checks) + 1

(***************************************************************************)
(* Initial state: main has built wg, sem, repoStatus and mu and is about   *)
(* to call filepath.Walk(currentDir, ...).                                 *)
(***************************************************************************)
EmptyStatus == [c \in Categories |-> <<>>]

\* The state of a process of the program when main calls filepath.Walk.
ProcessStart ==
    /\ mpc = "walk"
    /\ cur = Root
    /\ walkErr = FALSE
    /\ visited = <<>>
    /\ wg = 0
    /\ sem = 0
    /\ mu = NoPath
    /\ printMu = NoPath
    /\ repoStatus = EmptyStatus
    /\ pc = [r \in RepoDirs |-> "idle"]
    /\ idx = [r \in RepoDirs |-> 1]
    /\ allChecksPassed = [r \in RepoDirs |-> TRUE]
    /\ res = [r \in RepoDirs |-> [c \in Commands |-> NotRun]]
    /\ appended = [r \in RepoDirs |-> <<>>]
    /\ printed = <<>>

\* Three repositories with varying remotes, every parallelism limit.
InitPool ==
    /\ config \in [Branch : {<<"master">>}, Parallelism : 0..MaxParallelism]
    /\ tree = TreeOf([d \in WalkDirs |-> "dir"])
    /\ errAt = NoPath
    /\ git = [r \in RepoDirs |-> CleanTree]
    /\ invocations = 1

\* Every tree and every failing entry, with repositories that are up to date.
InitWalk ==
    /\ config \in [Branch : {<<"master">>}, Parallelism : 1..MaxParallelism]
    /\ \E gitKind \in [WalkDirs -> GitKinds] : tree = TreeOf(gitKind)
    /\ errAt \in PathsOf(tree) \cup {NoPath}
    /\ git = [r \in RepoDirs |-> UpToDate]
    /\ invocations = 1

\* One repository on which every command can give any result.
InitChecks ==
    /\ config \in [Branch : Branches, Parallelism : {1}]
    /\ tree = TreeOf([d \in WalkDirs |-> IF d = <<"a">> THEN "dir" ELSE "none"])
    /\ errAt = NoPath
    /\ git = [r \in RepoDirs |-> AnyResult]
    /\ invocations = 1

\* Two repositories whose git processes may never exit.
InitHang ==
    /\ config \in [Branch : {<<"master">>}, Parallelism : 1..MaxParallelism]
    /\ tree = TreeOf([d \in WalkDirs |-> IF Len(d) = 1 THEN "dir" ELSE "none"])
    /\ errAt = NoPath
    /\ git = [r \in RepoDirs |-> MayHang]
    /\ invocations = 1

\* The four repositories a, b, c and d side by side.
InitFour ==
    /\ config \in [Branch : {<<"master">>}, Parallelism : 1..MaxParallelism]
    /\ tree = TreeOf([d \in {<<"a">>, <<"b">>, <<"c">>, <<"d">>} |-> "dir"])
    /\ errAt = NoPath
    /\ git = FourRepos
    /\ invocations = 1

\* A repository that is up to date, and one beside it in some trees, on
\* which the program is run several times in succession.
InitAgain ==
    /\ config \in [Branch : {<<"master">>}, Parallelism : 1..MaxParallelism]
    /\ \E k \in {"none", "dir"} :
          tree = TreeOf((<<"a">> :> "dir") @@ (<<"b">> :> k))
    /\ errAt = NoPath
    /\ git = [r \in RepoDirs |-> StaysUpToDate]
    /\ invocations \in 1..MaxInvocations

\* The program is started inside the .git directory of a repository whose
\* remote has nothing new; the directory may hold a repository of its own.
InitInsideGit ==
    /\ currentDir = InsideGitDir
    /\ config \in [Branch : {<<"master">>}, Parallelism : 0..MaxParallelism]
    /\ \E k \in {"none", "dir"} : tree = TreeOf((<<"a">> :> k))
    /\ errAt \in {NoPath, Root}
    /\ git = [r \in RepoDirs |-> UpToDate]
    /\ invocations = 1

Init ==
    /\ \/ /\ currentDir = OrdinaryDir
          /\ InitPool \/ InitWalk \/ InitChecks \/ InitHang \/ InitFour
                \/ InitAgain
       \/ InitInsideGit
    /\ ProcessStart
    /\ reports = <<>>

\* What no step of a run changes.
env == <<config, currentDir, tree, errAt, git, invocations, reports>>

unitVars == <<pc, idx, allChecksPassed, res, appended>>

walkVars == <<cur, walkErr, visited>>

(***************************************************************************)
(* main: the walk callback, once per entry.                                *)
(***************************************************************************)
\* Where main goes when the callback returned nil or SkipDir for cur.
Continue(skip) ==
    /\ cur' = NextEntry(tree, cur, skip)
    /\ mpc' = IF cur' = NoPath THEN "wait" ELSE "walk"

\* The callback is handed a non-nil err and returns it: Walk returns it.
WalkError ==
    /\ mpc = "walk"
    /\ cur = errAt
    /\ visited' = Append(visited, cur)
    /\ walkErr' = TRUE
    /\ mpc' = "wait"
    /\ UNCHANGED <<env, printMu, cur, wg, sem, mu, repoStatus,
                   unitVars, printed>>

\* info.IsDir() && filepath.Base(path) == ".git"
IsGitDir(path) ==
    IsDirIn(tree, path) /\ Base(FullPath(currentDir, path)) = ".git"

\* repoPath := filepath.Dir(path), as a path relative to currentDir.
repoPath(path) == IF path = Root THEN Parent ELSE Dir(path)

\* A repository is found: wg.Add(1), then main is at the send on sem.
WalkFoundRepo ==
    /\ mpc = "walk"
    /\ cur # errAt
    /\ IsGitDir(cur)
    /\ visited' = Append(visited, cur)
    /\ wg' = wg + 1
    /\ mpc' = "send"
    /\ UNCHANGED <<env, printMu, cur, walkErr, sem, mu, repoStatus,
                   unitVars, printed>>

\* Any other entry: the callback returns nil.
WalkOther ==
    /\ mpc = "walk"
    /\ cur # errAt
    /\ ~IsGitDir(cur)
    /\ visited' = Append(visited, cur)
    /\ Continue(FALSE)
    /\ UNCHANGED <<env, printMu, walkErr, wg, sem, mu, repoStatus,
                   unitVars, printed>>

\* A send that goes through with a full buffer.
CanSend_off_by_one == sem <= config.Parallelism

\* A send on a channel without a buffer that goes through with no receiver.
CanSend_without_receiver ==
    sem < config.Parallelism \/ config.Parallelism = 0

\* sem <- struct{}{} can proceed: the buffer of the channel is not full.
CanSend == sem < config.Parallelism

\* The send on sem, the go statement and the return of filepath.SkipDir.
Send ==
    /\ mpc = "send"
    /\ CanSend
    /\ sem' = sem + 1
    /\ pc' = [pc EXCEPT ![repoPath(cur)] = "check"]
    /\ Continue(TRUE)
    /\ UNCHANGED <<env, printMu, walkErr, visited, wg, mu, repoStatus,
                   idx, allChecksPassed, res, appended, printed>>

\* main is blocked in the send on sem and no goroutine exists that could
\* receive from it: the Go runtime ends the process with "fatal error: all
\* goroutines are asleep - deadlock!". A goroutine waiting for a git process
\* is not asleep.
FatalDeadlock ==
    /\ mpc = "send"
    /\ ~CanSend
    /\ \A r \in RepoDirs : pc[r] \in {"idle", "done"}
    /\ mpc' = "fatal"
    /\ UNCHANGED <<env, printMu, walkVars, wg, sem, mu, repoStatus,
                   unitVars, printed>>

\* A wait that returns with goroutines still counted.
WaitReturns_no_wait == TRUE

\* wg.Wait() returns.
WaitReturns == wg = 0

Wait ==
    /\ mpc = "wait"
    /\ WaitReturns
    /\ mpc' = "print"
    /\ UNCHANGED <<env, printMu, walkVars, wg, sem, mu, repoStatus,
                   unitVars, printed>>

\* printResults(config.Branch, repoStatus): the struct is passed by value.
PrintResults ==
    /\ mpc = "print"
    /\ printed' = <<repoStatus>>
    /\ mpc' = "exit"
    /\ UNCHANGED <<env, printMu, walkVars, wg, sem, mu, repoStatus,
                   unitVars>>

(***************************************************************************)
(* The goroutine of repository r: processRepository, <-sem, wg.Done().     *)
(***************************************************************************)
\* A project name taken from the wrong end of the path.
projectName_first_component(r) == r[1]

\* projectName := filepath.Base(repoPath)
projectName(r) == IF r = Parent THEN Base(Dir(currentDir)) ELSE Base(r)

\* What checks[i].fail returned, given the result of its command; for the
\* last check this is the return right after the fetch.
CheckFails(i, raw, branchName) ==
    CASE i = 1 -> notOnBranch(raw, branchName)
      [] i = 2 -> hasUncommittedChanges(raw)
      [] i = 3 -> hasUnpushedCommits(raw)
      [] i = 4 -> fetchGaveNothing(raw)

\* A loop that is left at the first check that returned true.
LoopNext_short_circuit(i, passed) ==
    IF ~passed THEN [pc |-> "release", idx |-> i]
    ELSE IF i < Len(checks) THEN [pc |-> "check", idx |-> i + 1]
    ELSE [pc |-> "pull", idx |-> i]

\* The for loop goes on after checks[i]: the next check, or the statement
\* after the loop, if allChecksPassed && gitPull(repoPath).
LoopNext(i, passed) ==
    IF i < Len(checks) THEN [pc |-> "check", idx |-> i + 1]
    ELSE IF passed THEN [pc |-> "pull", idx |-> i]
    ELSE [pc |-> "release", idx |-> i]

GoTo(r, to) ==
    /\ pc' = [pc EXCEPT ![r] = to.pc]
    /\ idx' = [idx EXCEPT ![r] = to.idx]

\* check.fail(repoPath, branchName) runs its (first) command.
ExecCheck(r) ==
    /\ pc[r] = "check"
    /\ \E raw \in git[r][checks[idx[r]].cmd] :
        /\ res' = [res EXCEPT ![r][checks[idx[r]].cmd] = raw]
        /\ IF ~executeWaitEnds(raw)
           THEN GoTo(r, [pc |-> "hung", idx |-> idx[r]])
           ELSE IF CheckFails(idx[r], raw, config.Branch)
           THEN GoTo(r, [pc |-> "lock", idx |-> idx[r]])
           ELSE IF idx[r] = Len(checks)
                THEN GoTo(r, [pc |-> "status_uno", idx |-> idx[r]])
                ELSE GoTo(r, LoopNext(idx[r], allChecksPassed[r]))
    /\ UNCHANGED <<env, printMu, mpc, walkVars, wg, sem, mu,
                   repoStatus, allChecksPassed, appended, printed>>

\* noRemoteUpdates, second command: git status -uno.
ExecStatusUno(r) ==
    /\ pc[r] = "status_uno"
    /\ \E raw \in git[r]["status-uno"] :
        /\ res' = [res EXCEPT ![r]["status-uno"] = raw]
        /\ IF ~executeWaitEnds(raw)
           THEN GoTo(r, [pc |-> "hung", idx |-> idx[r]])
           ELSE IF noRemoteUpdates(res[r]["fetch"], raw)
           THEN GoTo(r, [pc |-> "lock", idx |-> idx[r]])
           ELSE GoTo(r, LoopNext(idx[r], allChecksPassed[r]))
    /\ UNCHANGED <<env, printMu, mpc, walkVars, wg, sem, mu,
                   repoStatus, allChecksPassed, appended, printed>>

\* A lock that excludes nobody.
MuFree_no_lock == TRUE

\* mu.Lock() can proceed.
MuFree == mu = NoPath

Lock(r) ==
    /\ pc[r] = "lock"
    /\ MuFree
    /\ mu' = r
    /\ pc' = [pc EXCEPT ![r] = "cs"]
    /\ UNCHANGED <<env, printMu, mpc, walkVars, wg, sem, repoStatus,
                   idx, allChecksPassed, res, appended, printed>>

\* The list the goroutine appends to at index i of its run.
TargetList(i) ==
    IF i = UpdatedIdx THEN "updatedRepos" ELSE ListOf(checks[i].msg)

\* repoStatus.X = append(repoStatus.X, projectName)
AppendName(r) ==
    /\ pc[r] = "cs"
    /\ repoStatus' = [repoStatus EXCEPT
                        ![TargetList(idx[r])] = Append(@, projectName(r))]
    /\ appended' = [appended EXCEPT ![r] = Append(@, TargetList(idx[r]))]
    /\ pc' = [pc EXCEPT ![r] = "unlock"]
    /\ UNCHANGED <<env, printMu, mpc, walkVars, wg, sem, mu, idx,
                   allChecksPassed, res, printed>>

\* mu.Unlock(); after a failed check allChecksPassed = false and the loop
\* goes on; after the append to updatedRepos processRepository returns.
Unlock(r) ==
    /\ pc[r] = "unlock"
    /\ mu' = NoPath
    /\ IF idx[r] = UpdatedIdx
       THEN /\ GoTo(r, [pc |-> "release", idx |-> idx[r]])
            /\ UNCHANGED allChecksPassed
       ELSE /\ allChecksPassed' = [allChecksPassed EXCEPT ![r] = FALSE]
            /\ GoTo(r, LoopNext(idx[r], FALSE))
    /\ UNCHANGED <<env, printMu, mpc, walkVars, wg, sem, repoStatus,
                   res, appended, printed>>

\* A goroutine that, when its pull fails, ends without receiving from sem.
GitPull_failure_keeps_slot(r) ==
    /\ pc[r] = "pull"
    /\ \E raw \in git[r]["pull"] :
        /\ res' = [res EXCEPT ![r]["pull"] = raw]
        /\ IF ~pullWaitEnds(raw)
           THEN GoTo(r, [pc |-> "hung", idx |-> idx[r]])
           ELSE IF gitPull(raw)
           THEN GoTo(r, [pc |-> "printlock", idx |-> idx[r]])
           ELSE GoTo(r, [pc |-> "wgdone", idx |-> idx[r]])
    /\ UNCHANGED <<env, printMu, mpc, walkVars, wg, sem, mu,
                   repoStatus, allChecksPassed, appended, printed>>

\* allChecksPassed && gitPull(repoPath), up to the return of cmd.Run(): the
\* goroutine stays in it for as long as the process does not exit; after an
\* error gitPull returns false, else it goes on to printMu.Lock().
GitPull(r) ==
    /\ pc[r] = "pull"
    /\ \E raw \in git[r]["pull"] :
        /\ res' = [res EXCEPT ![r]["pull"] = raw]
        /\ IF ~pullWaitEnds(raw)
           THEN GoTo(r, [pc |-> "hung", idx |-> idx[r]])
           ELSE IF gitPull(raw)
           THEN GoTo(r, [pc |-> "printlock", idx |-> idx[r]])
           ELSE GoTo(r, [pc |-> "release", idx |-> idx[r]])
    /\ UNCHANGED <<env, printMu, mpc, walkVars, wg, sem, mu,
                   repoStatus, allChecksPassed, appended, printed>>

\* printMu.Lock() can proceed.
PrintMuFree == printMu = NoPath

\* gitPull: printMu.Lock() after a pull that succeeded.
PrintLock(r) ==
    /\ pc[r] = "printlock"
    /\ PrintMuFree
    /\ printMu' = r
    /\ pc' = [pc EXCEPT ![r] = "printing"]
    /\ UNCHANGED <<env, mpc, walkVars, wg, sem, mu, repoStatus,
                   idx, allChecksPassed, res, appended, printed>>

\* gitPull prints the output of the pull and returns true, the deferred
\* printMu.Unlock() runs, and processRepository is at its mu.Lock().
PrintUnlock(r) ==
    /\ pc[r] = "printing"
    /\ printMu' = NoPath
    /\ GoTo(r, [pc |-> "lock", idx |-> UpdatedIdx])
    /\ UNCHANGED <<env, mpc, walkVars, wg, sem, mu, repoStatus,
                   allChecksPassed, res, appended, printed>>

\* A goroutine that ends without receiving from sem.
Release_keeps_slot(r) ==
    /\ pc[r] = "release"
    /\ pc' = [pc EXCEPT ![r] = "wgdone"]
    /\ UNCHANGED <<env, printMu, mpc, walkVars, wg, sem, mu,
                   repoStatus, idx, allChecksPassed, res, appended, printed>>

\* <-sem
Release(r) ==
    /\ pc[r] = "release"
    /\ sem' = sem - 1
    /\ pc' = [pc EXCEPT ![r] = "wgdone"]
    /\ UNCHANGED <<env, printMu, mpc, walkVars, wg, mu, repoStatus,
                   idx, allChecksPassed, res, appended, printed>>

\* defer wg.Done()
WgDone(r) ==
    /\ pc[r] = "wgdone"
    /\ wg' = wg - 1
    /\ pc' = [pc EXCEPT ![r] = "done"]
    /\ UNCHANGED <<env, printMu, mpc, walkVars, sem, mu, repoStatus,
                   idx, allChecksPassed, res, appended, printed>>

\* main has returned and the program is started again on the same tree.
RunAgain ==
    /\ mpc = "exit"
    /\ Len(reports) + 1 < invocations
    /\ reports' = Append(reports, printed[1])
    /\ mpc' = "walk"
    /\ cur' = Root
    /\ walkErr' = FALSE
    /\ visited' = <<>>
    /\ wg' = 0
    /\ sem' = 0
    /\ mu' = NoPath
    /\ printMu' = NoPath
    /\ repoStatus' = EmptyStatus
    /\ pc' = [r \in RepoDirs |-> "idle"]
    /\ idx' = [r \in RepoDirs |-> 1]
    /\ allChecksPassed' = [r \in RepoDirs |-> TRUE]
    /\ res' = [r \in RepoDirs |-> [c \in Commands |-> NotRun]]
    /\ appended' = [r \in RepoDirs |-> <<>>]
    /\ printed' = <<>>
    /\ UNCHANGED <<config, currentDir, tree, errAt, git, invocations>>

Main ==
    \/ WalkError \/ WalkFoundRepo \/ WalkOther \/ Send \/ FatalDeadlock
    \/ Wait \/ PrintResults \/ RunAgain

Unit(r) ==
    \/ ExecCheck(r)
    \/ ExecStatusUno(r)
    \/ Lock(r)
    \/ AppendName(r)
    \/ Unlock(r)
    \/ GitPull(r)
    \/ PrintLock(r)
    \/ PrintUnlock(r)
    \/ Release(r)
    \/ WgDone(r)

Next == Main \/ \E r \in RepoDirs : Unit(r)

Spec == Init /\ [][Next]_vars

\* Each goroutine, main included, keeps being scheduled while it can run.
FairSpec == Spec /\ WF_vars(Main) /\ \A r \in RepoDirs : WF_vars(Unit(r))

TypeOK ==
    /\ mpc \in {"walk", "send", "fatal", "wait", "print", "exit"}
    /\ wg \in 0..Cardinality(RepoDirs)
    /\ sem \in 0..MaxParallelism
    /\ mu \in RepoDirs \cup {NoPath}
    /\ printMu \in RepoDirs \cup {NoPath}

(***************************************************************************)
(* Vocabulary of the properties.                                           *)
(***************************************************************************)
Range(seq) == {seq[k] : k \in 1..Len(seq)}

Count(seq, x) == Cardinality({k \in 1..Len(seq) : seq[k] = x})

NoDup(seq) == \A k, l \in 1..Len(seq) : seq[k] = seq[l] => k = l

\* The repositories the walk has found so far.
Discovered ==
    {repoPath(visited[k]) : k \in {l \in 1..Len(visited) :
                                IsGitDir(visited[l]) /\ visited[l] # errAt}}

\* The goroutines that hold a slot of sem.
Running == {r \in RepoDirs : pc[r] \notin {"idle", "wgdone", "done"}}

\* processRepository has returned for r.
Returned(r) == pc[r] \in {"release", "wgdone", "done"}

\* The checks that returned true for r, from the results of its commands.
FailedChecks(r) ==
    {i \in 1..Len(checks) :
        CASE i = 1 -> notOnBranch(res[r]["rev-parse"], config.Branch)
          [] i = 2 -> hasUncommittedChanges(res[r]["status"])
          [] i = 3 -> hasUnpushedCommits(res[r]["cherry"])
          [] i = 4 -> noRemoteUpdates(res[r]["fetch"], res[r]["status-uno"])}

\* The lists the results of r call for.
Produced(r) ==
    IF FailedChecks(r) # {}
    THEN {ListOf(checks[i].msg) : i \in FailedChecks(r)}
    ELSE IF res[r]["pull"].ran /\ ~res[r]["pull"].err
         THEN {"updatedRepos"} ELSE {}

Names == {projectName(r) : r \in RepoDirs}

----------------------------------------------------------------------------
\* C1: at most config.Parallelism goroutines hold a slot at any time, and a
\* goroutine is started only in a step taken while fewer than that many
\* hold one (main stays blocked on the send until a slot is released).
C1_BoundedAdmission ==
    /\ [](Cardinality(Running) <= config.Parallelism /\ Cardinality(Running) = sem)
    /\ [][(\E r \in RepoDirs : pc[r] = "idle" /\ pc'[r] # "idle")
            => Cardinality(Running) < config.Parallelism]_vars

\* main is blocked on the send while K >= 1 goroutines hold all K slots.
C1_Witness ==
    /\ mpc = "send"
    /\ config.Parallelism >= 1
    /\ Cardinality(Running) = config.Parallelism
    /\ Cardinality(Discovered) > config.Parallelism

\* The run is over: main has called printResults and every repository the
\* walk found has run to the end of its goroutine.
RunComplete ==
    /\ mpc = "exit"
    /\ wg = 0
    /\ \A r \in Discovered : pc[r] = "done"

\* No pull can stay running for ever: every pull process exits on its own
\* and leaves its pipes closed.
EveryPullReturns ==
    \A r \in RepoDirs : \A raw \in git[r]["pull"] : raw.exits /\ raw.eof

\* No inspection can stay running for ever: every process is gone at the
\* deadline and leaves its pipes closed.
EveryInspectionReturns ==
    \A r \in RepoDirs : \A c \in Commands \ {"pull"} :
        \A raw \in git[r][c] : raw.eof

\* C2: with a parallelism limit of at least 1, every external command
\* returning and every goroutine scheduled fairly, every repository found is
\* admitted and finishes, the WaitGroup drops to zero and main reaches
\* printResults.
C2_RunTerminates ==
    (config.Parallelism >= 1 /\ EveryInspectionReturns /\ EveryPullReturns)
        ~> RunComplete

\* A finished run that found more repositories than there are slots.
C2_Witness ==
    /\ RunComplete
    /\ config.Parallelism >= 1
    /\ Cardinality(Discovered) > config.Parallelism

\* Occurrences of a name in the five printed lists together.
RECURSIVE TotalCount(_, _, _)
TotalCount(status, cats, name) ==
    IF cats = {} THEN 0
    ELSE LET c == CHOOSE x \in cats : TRUE
         IN  Count(status[c], name) + TotalCount(status, cats \ {c}, name)

\* C3 as stated: in the report every repository found occurs exactly once
\* in the five lists together.
C3_ExactlyOnce ==
    mpc = "exit" =>
        \A n \in Names :
            TotalCount(printed[1], Categories, n)
                = Cardinality({r \in Discovered : projectName(r) = n})

\* C3 amended: a repository found is appended once to the list of each
\* check that returned true for it, to updatedRepos alone when none did and
\* the pull succeeded, and to no list when none did and the pull failed;
\* the report holds these entries and no others.
C3_OncePerCategory ==
    mpc = "exit" =>
        /\ \A r \in Discovered :
            /\ NoDup(appended[r])
            /\ Len(appended[r]) =
                  IF FailedChecks(r) # {} THEN Cardinality(FailedChecks(r))
                  ELSE IF gitPull(res[r]["pull"]) THEN 1 ELSE 0
        /\ \A n \in Names :
            TotalCount(printed[1], Categories, n)
                = Cardinality({<<r, c>> \in Discovered \X Categories :
                                 projectName(r) = n /\ c \in Range(appended[r])})

\* A report with a repository in two lists and a repository in none.
C3_Witness ==
    /\ mpc = "exit"
    /\ \E r \in Discovered : Len(appended[r]) >= 2
    /\ \E r \in Discovered : Len(appended[r]) = 0

\* C4: a repository is in updatedRepos only if it was appended to none of
\* the four check lists and its pull returned without error; the pull is
\* run only after all four checks returned false.
C4_UpdatedOnlyAfterAllPass ==
    /\ \A r \in RepoDirs :
        /\ "updatedRepos" \in Range(appended[r]) =>
              /\ Range(appended[r]) \cap CheckCategories = {}
              /\ res[r]["pull"].ran /\ ~res[r]["pull"].err
        /\ (pc[r] = "pull" \/ res[r]["pull"].ran) =>
              /\ \A i \in 1..(Len(checks) - 1) : res[r][checks[i].cmd].ran
              /\ res[r]["fetch"].ran
              /\ FailedChecks(r) = {}
              /\ appended[r] \in {<<>>, <<"updatedRepos">>}
    /\ \A n \in Range(repoStatus["updatedRepos"]) :
          \E r \in RepoDirs :
              projectName(r) = n /\ "updatedRepos" \in Range(appended[r])

\* A repository has been pulled and appended to updatedRepos.
C4_Witness ==
    \E r \in RepoDirs :
        /\ appended[r] = <<"updatedRepos">>
        /\ projectName(r) \in Range(repoStatus["updatedRepos"])

\* C5: when processRepository returns, all four checks have been run and
\* the repository has been appended to the list of exactly those that
\* returned true.
C5_Exhaustive ==
    \A r \in RepoDirs :
        Returned(r) =>
            /\ \A i \in 1..Len(checks) : res[r][checks[i].cmd].ran
            /\ Range(appended[r]) \cap CheckCategories
                  = {ListOf(checks[i].msg) : i \in FailedChecks(r)}

\* A repository for which the first and the third check returned true and
\* the second returned false, and one for which all four returned true.
C5_Witness ==
    \E r \in RepoDirs :
        /\ Returned(r)
        /\ 1 \in FailedChecks(r) /\ 2 \notin FailedChecks(r)
        /\ 3 \in FailedChecks(r)
        /\ Len(appended[r]) >= 2

\* The branch name the inspection gave: nothing when the command failed,
\* else its output without the white space around it.
CurrentBranch(raw) ==
    IF raw.err THEN <<>> ELSE SelectSeq(raw.out, LAMBDA t : ~IsSpace(t))

\* C6: at the end of the run a repository is in notOnBranch exactly if its
\* branch inspection gave something else than the configured branch; a
\* failed inspection with a non-empty configured branch puts it there, and
\* the run is complete for every repository found.
C6_NotOnBranchIff ==
    mpc = "exit" =>
        /\ \A r \in Discovered :
            /\ "notOnBranch" \in Range(appended[r])
                  <=> CurrentBranch(res[r]["rev-parse"]) # config.Branch
            /\ "notOnBranch" \in Range(appended[r])
                  => projectName(r) \in Range(printed[1]["notOnBranch"])
            /\ (res[r]["rev-parse"].err /\ config.Branch # <<>>)
                  => projectName(r) \in Range(printed[1]["notOnBranch"])
        /\ \A n \in Range(printed[1]["notOnBranch"]) :
              \E r \in Discovered :
                  /\ projectName(r) = n
                  /\ CurrentBranch(res[r]["rev-parse"]) # config.Branch
        /\ RunComplete

\* The branch inspection of one repository failed, it is reported as not on
\* the branch, and another repository has been processed to the end.
C6_Witness ==
    /\ mpc = "exit"
    /\ \E r, o \in Discovered :
        /\ r # o
        /\ res[r]["rev-parse"].err
        /\ projectName(r) \in Range(printed[1]["notOnBranch"])
        /\ "notOnBranch" \notin Range(appended[o])

\* C7: printResults is reached and run only after the walk has returned and
\* every goroutine started has finished; nothing is appended afterwards.
C7_ReportAfterAll ==
    /\ mpc \in {"print", "exit"} =>
          /\ cur = NoPath \/ walkErr
          /\ wg = 0
          /\ Running = {}
          /\ \A r \in RepoDirs : pc[r] \in {"idle", "done"}
          /\ \A r \in Discovered : pc[r] = "done"
    /\ printed # <<>> => printed[1] = repoStatus

\* The report has been printed with the entry of a finished goroutine.
C7_Witness ==
    /\ mpc = "exit"
    /\ \E r \in Discovered : pc[r] = "done" /\ appended[r] # <<>>
    /\ Cardinality(Discovered) >= 2

\* The project names of the repositories found whose results call for list c.
RECURSIVE NameCount(_, _, _)
NameCount(rs, c, n) ==
    IF rs = {} THEN 0
    ELSE LET r == CHOOSE x \in rs : TRUE
         IN  (IF projectName(r) = n /\ c \in Produced(r) THEN 1 ELSE 0)
                + NameCount(rs \ {r}, c, n)

\* C8: at most one goroutine is between mu.Lock() and mu.Unlock(), and at
\* the end every list holds, as a multiset, the names of the repositories
\* whose results call for it.
C8_MutexNoLostAppend ==
    /\ Cardinality({r \in RepoDirs : pc[r] \in {"cs", "unlock"}}) <= 1
    /\ \A r \in RepoDirs : pc[r] \in {"cs", "unlock"} => mu = r
    /\ mpc = "exit" =>
          \A c \in Categories : \A n \in Names :
              Count(printed[1][c], n) = NameCount(Discovered, c, n)

\* One goroutine is inside the critical section while another waits to
\* append to the same list.
C8_Witness ==
    \E r, o \in RepoDirs :
        /\ r # o
        /\ pc[r] = "cs" /\ pc[o] = "lock"
        /\ TargetList(idx[r]) = TargetList(idx[o])
        /\ Len(repoStatus[TargetList(idx[r])]) >= 1

\* C9: once the walk has found the .git directory of a directory D it
\* visits no further entry below D, and no repository below another
\* repository found is handed to a goroutine.
C9_NoDescentBelowRepo ==
    /\ \A k, l \in 1..Len(visited) :
          (k < l /\ IsGitDir(visited[k]) /\ visited[k] # errAt)
              => ~IsPrefix(repoPath(visited[k]), visited[l])
    /\ \A d, r \in Discovered : IsPrefix(d, r) => d = r

\* The tree has a directory with a .git directory outside every other
\* repository and outside the failing entry, walked after that entry.
AfterError(d) ==
    /\ errAt # NoPath
    /\ IsDirIn(tree, d \o <<".git">>)
    /\ PathLess(errAt, d \o <<".git">>)
    /\ ~IsPrefix(errAt, d \o <<".git">>)
    /\ \A o \in RepoDirs :
          (IsPrefix(o, d) /\ o # d) => ~IsDirIn(tree, o \o <<".git">>)

\* C10: an entry that fails does not end the walk: every repository at an
\* entry walked after it is found, processed to the end and recorded.
C10_ErrorDoesNotAbort ==
    mpc = "exit" =>
        \A d \in RepoDirs :
            AfterError(d) =>
                /\ d \in Discovered
                /\ pc[d] = "done"
                /\ projectName(d) \in Range(printed[1]["noUpdates"])

\* C11: no goroutine stays waiting for an external process that does not
\* exit, the pull included, so with a parallelism limit of at least 1 the
\* run reaches printResults.
C11_NoCommandStalls ==
    /\ [](\A r \in RepoDirs : pc[r] # "hung")
    /\ (config.Parallelism >= 1) ~> (mpc = "exit")

\* The inspection did not succeed: non-zero exit, spawn failure or timeout.
InspectionFailed(r, cmd) == res[r][cmd].ran /\ res[r][cmd].err

\* C12: when processRepository returns, all four checks have been run, and
\* the repository is in the list of no check whose inspection failed.
C12_FailedInspectionIsFalse ==
    \A r \in RepoDirs :
        Returned(r) =>
            /\ \A i \in 1..Len(checks) : res[r][checks[i].cmd].ran
            /\ InspectionFailed(r, "rev-parse")
                  => "notOnBranch" \notin Range(appended[r])
            /\ InspectionFailed(r, "status")
                  => "uncommittedChanges" \notin Range(appended[r])
            /\ InspectionFailed(r, "cherry")
                  => "unpushedCommits" \notin Range(appended[r])
            /\ (InspectionFailed(r, "fetch") \/ InspectionFailed(r, "status-uno"))
                  => "noUpdates" \notin Range(appended[r])

\* The remote of r has commits the local branch lacks: no status inspection
\* of r reports the branch as up to date.
UpstreamAhead(r) ==
    \A x \in git[r]["status-uno"] : ~Contains(x.out, UpToDateText)

\* C13: noRemoteUpdates runs the fetch and then the status inspection, and
\* the repository is in noUpdates exactly if that status inspection reported
\* the branch as up to date; after a successful fetch a repository whose
\* remote is ahead is never in noUpdates.
C13_FetchThenStatus ==
    \A r \in RepoDirs :
        /\ res[r]["status-uno"].ran => res[r]["fetch"].ran
        /\ Returned(r) =>
            /\ res[r]["fetch"].ran /\ res[r]["status-uno"].ran
            /\ "noUpdates" \in Range(appended[r])
                  <=> /\ ~res[r]["status-uno"].err
                      /\ Contains(res[r]["status-uno"].out, UpToDateText)
            /\ (~res[r]["fetch"].err /\ UpstreamAhead(r))
                  => "noUpdates" \notin Range(appended[r])

\* C14: with the four repositories a (nothing to do), b (uncommitted
\* change), c (two unpushed commits) and d (remote ahead, pull succeeds) the
\* report is noUpdates = [a], uncommittedChanges = [b], unpushedCommits =
\* [c], updatedRepos = [d] and notOnBranch empty.
C14_ScenarioReport ==
    (git = FourRepos /\ mpc = "exit") =>
        printed[1] = [notOnBranch |-> <<>>,
                      uncommittedChanges |-> <<"b">>,
                      unpushedCommits |-> <<"c">>,
                      noUpdates |-> <<"a">>,
                      updatedRepos |-> <<"d">>]

\* The final component of the path of a repository.
FinalComponent(r) ==
    IF r = Parent THEN currentDir[Len(currentDir) - 1] ELSE r[Len(r)]

\* The final path component of every directory that may be a repository.
LastNames == {FinalComponent(r) : r \in RepoDirs}

\* C15 as stated: at the end no list holds the same name twice, and the
\* name of every repository found is in every list its results call for.
C15_NoNameTwice ==
    mpc = "exit" =>
        /\ \A c \in Categories : NoDup(printed[1][c])
        /\ \A r \in Discovered : \A c \in Produced(r) :
              FinalComponent(r) \in Range(printed[1][c])

\* C15 amended: at the end every list holds a name once for each repository
\* found that has that final path component and was appended to the list,
\* and no repository was appended to a list twice; two repositories with
\* the same final path component give the same name twice.
C15_OneEntryPerRepository ==
    mpc = "exit" =>
        /\ \A r \in Discovered :
              NoDup(appended[r]) /\ Range(appended[r]) = Produced(r)
        /\ \A c \in Categories : \A n \in LastNames :
              Count(printed[1][c], n)
                = Cardinality({r \in Discovered :
                                 FinalComponent(r) = n /\ c \in Range(appended[r])})

\* Two repositories with the same final path component, neither below the
\* other, are in the same list of the report.
C15_Witness ==
    /\ mpc = "exit"
    /\ Discovered = {<<"a", "b">>, <<"b">>}
    /\ \E c \in Categories : Count(printed[1][c], "b") = 2

\* The pull of r was attempted and its process exited with an error.
PullFailed(r) ==
    res[r]["pull"].ran /\ res[r]["pull"].exits /\ res[r]["pull"].err

\* The first command of each of the four checks has been run for r.
RanAllChecks(r) == \A i \in 1..Len(checks) : res[r][checks[i].cmd].ran

\* C16: a repository whose pull failed is never appended to updatedRepos and
\* its goroutine goes on to its end; when main has printed the report every
\* other repository found has run all four checks to the end of its goroutine
\* and is in exactly the lists its results call for; and once a pull has
\* failed the run still completes.
C16_PullFailureNotFatal ==
    /\ [](\A r \in RepoDirs : PullFailed(r) =>
            /\ "updatedRepos" \notin Range(appended[r])
            /\ pc[r] \in {"release", "wgdone", "done"}
            /\ mpc = "exit" =>
                 \A q \in Discovered \ {r} :
                    /\ pc[q] = "done"
                    /\ RanAllChecks(q)
                    /\ Range(appended[q]) = Produced(q)
                    /\ \A c \in Produced(q) :
                          FinalComponent(q) \in Range(printed[1][c]))
    /\ (\E r \in RepoDirs : PullFailed(r)) ~> RunComplete

\* The run is over, the pull of one repository failed and another repository
\* was pulled and reported as updated.
C16_Witness ==
    /\ mpc = "exit"
    /\ \E r, q \in Discovered :
          /\ r # q
          /\ PullFailed(r)
          /\ appended[r] = <<>>
          /\ appended[q] = <<"updatedRepos">>
          /\ FinalComponent(q) \in Range(printed[1]["updatedRepos"])

\* The git commands of one repository in the order the claim gives to the
\* checks, the fetch before the status of the last check, the pull last.
CommandOrder ==
    <<"rev-parse", "status", "cherry", "fetch", "status-uno", "pull">>

\* The categories of the first three checks, in the same order.
CategoryOrder == <<"notOnBranch", "uncommittedChanges", "unpushedCommits">>

\* Command k of r is started in this step.
Starts(r, k) ==
    ~res[r][CommandOrder[k]].ran /\ res'[r][CommandOrder[k]].ran

\* C17: a command of a repository is started only when every command before
\* it in the order has been run for that repository and none after it, and
\* when each of the first three checks before it has finished, its append
\* included; the pull is started only when all four checks have been
\* evaluated with nothing appended. Nothing is required between the commands
\* of different repositories.
C17_OrderWithinUnit ==
    [][\A r \in RepoDirs : \A k \in 1..Len(CommandOrder) :
         Starts(r, k) =>
            /\ \A j \in 1..(k - 1) : res[r][CommandOrder[j]].ran
            /\ \A j \in (k + 1)..Len(CommandOrder) :
                  ~res[r][CommandOrder[j]].ran
            /\ \A j \in 1..Len(CategoryOrder) :
                  j < k =>
                     (j \in FailedChecks(r)
                        <=> CategoryOrder[j] \in Range(appended[r]))
            /\ pc[r] \in {"check", "status_uno", "pull"}
            /\ k = Len(CommandOrder) =>
                  FailedChecks(r) = {} /\ appended[r] = <<>>]_vars

\* The repository admitted second has run all its commands and ended while
\* the one admitted first has not yet run its first command.
C17_Witness ==
    /\ Len(visited) >= 2
    /\ pc[<<"a">>] = "check"
    /\ ~res[<<"a">>]["rev-parse"].ran
    /\ pc[<<"b">>] = "done"
    /\ \A k \in 1..Len(CommandOrder) : res[<<"b">>][CommandOrder[k]].ran

\* An inspection of r was killed at the deadline of executeGitCommand.
TimedOut(r) ==
    \E c \in Commands \ {"pull"} : res[r][c].ran /\ ~res[r][c].exits

\* The pull of r is running and its process never exits.
PullHangs(r) == res[r]["pull"].ran /\ ~res[r]["pull"].exits

\* C18: an inspection that times out never leaves its goroutine waiting and
\* counts as an empty output; the goroutine evaluates all four checks before
\* it returns; once an inspection has timed out, every goroutine in which
\* one did comes to its wg.Done unless a pull it starts never exits, and the
\* whole run completes unless some pull never exits.
C18_TimeoutAbortsOnlyInvocation ==
    /\ [](\A r \in RepoDirs :
            /\ pc[r] = "hung" => PullHangs(r)
            /\ (TimedOut(r) /\ Returned(r)) =>
                  RanAllChecks(r) /\ Range(appended[r]) = Produced(r)
            /\ \A c \in Commands \ {"pull"} :
                  (res[r][c].ran /\ ~res[r][c].exits) =>
                      executeGitCommand(res[r][c]) = <<>>)
    /\ (\E r \in RepoDirs : TimedOut(r))
          ~> /\ \A r \in RepoDirs :
                   TimedOut(r) => (pc[r] = "done" \/ PullHangs(r))
             /\ RunComplete \/ \E q \in RepoDirs : PullHangs(q)

\* Every repository is clean, on the branch and up to date with its remote,
\* and stays so from one run to the next.
AllUpToDate == \A r \in RepoDirs : git[r] = StaysUpToDate

\* C19: when the program is run again and again on repositories that are
\* clean, on the branch and up to date, in every run no pull is attempted,
\* a repository whose goroutine has returned was appended to noUpdates and to
\* nothing else, and the report of every run has nothing under updatedRepos
\* and, under noUpdates, each repository once, the same in every run.
C19_UpToDateEveryRun ==
    AllUpToDate =>
        /\ \A r \in RepoDirs :
              /\ ~res[r]["pull"].ran
              /\ "updatedRepos" \notin Range(appended[r])
              /\ Returned(r) => appended[r] = <<"noUpdates">>
        /\ \A k \in 1..Len(reports) :
              /\ reports[k]["updatedRepos"] = <<>>
              /\ Count(reports[k]["noUpdates"], "a") = 1
              /\ NoDup(reports[k]["noUpdates"])
        /\ mpc = "exit" =>
              /\ printed[1]["updatedRepos"] = <<>>
              /\ Count(printed[1]["noUpdates"], "a") = 1
              /\ NoDup(printed[1]["noUpdates"])
              /\ \A k \in 1..Len(reports) :
                    Range(reports[k]["noUpdates"])
                       = Range(printed[1]["noUpdates"])

\* The second run has ended after a first one, and in it the fetch of the
\* repository wrote to stdout, so that the status was inspected.
C19_Witness ==
    /\ AllUpToDate
    /\ Len(reports) = 1
    /\ mpc = "exit"
    /\ res[<<"a">>]["fetch"].out # <<>>
    /\ res[<<"a">>]["status-uno"].ran
    /\ "a" \in Range(reports[1]["noUpdates"])
    /\ "a" \in Range(printed[1]["noUpdates"])

\* The entries under category c of the report that come from repositories
\* other than r with the final path component n.
EntriesOfOthers(r, c, n) ==
    Cardinality({q \in Discovered \ {r} :
                    FinalComponent(q) = n /\ c \in Range(appended[q])})

\* C20: a repository whose pull failed had all four checks return false and
\* is appended to nothing; when the pull has returned its goroutine is at
\* the release of its slot, which it gives back before it calls wg.Done;
\* in the report no list has an entry for it, and by then its goroutine has
\* ended, every slot is free and the WaitGroup is at zero.
C20_FailedPullInNoCategory ==
    /\ [](\A r \in RepoDirs : PullFailed(r) =>
            /\ RanAllChecks(r) /\ FailedChecks(r) = {}
            /\ appended[r] = <<>>
            /\ pc[r] \in {"release", "wgdone", "done"}
            /\ mpc = "exit" =>
                  /\ pc[r] = "done" /\ sem = 0 /\ wg = 0
                  /\ \A c \in Categories :
                        Count(printed[1][c], FinalComponent(r))
                           = EntriesOfOthers(r, c, FinalComponent(r)))
    /\ [][\A r \in RepoDirs :
            (PullFailed(r)' /\ pc[r] # pc'[r]) =>
                \/ pc[r] = "pull" /\ pc'[r] = "release"
                \/ pc[r] = "release" /\ pc'[r] = "wgdone" /\ sem' = sem - 1
                \/ pc[r] = "wgdone" /\ pc'[r] = "done" /\ wg' = wg - 1]_vars

\* The run is over; the pull of a repository failed after four checks that
\* returned false and its name is in no list of the report.
C20_Witness ==
    /\ mpc = "exit"
    /\ sem = 0 /\ wg = 0
    /\ \E r \in Discovered :
          /\ PullFailed(r)
          /\ FailedChecks(r) = {}
          /\ pc[r] = "done"
          /\ \A c \in Categories : FinalComponent(r) \notin Range(printed[1][c])

\* The walk comes to a repository: the tree has one and no entry fails.
HasRepository ==
    errAt = NoPath /\ \E p \in PathsOf(tree) : IsGitDir(p)

\* With config.Parallelism = 0 and a repository in the tree nothing is ever
\* started or reported: no goroutine, no slot taken, no list appended to,
\* and main never gets past the send for the first repository it finds.
NothingStarted ==
    (config.Parallelism = 0 /\ HasRepository) =>
        /\ \A r \in RepoDirs : pc[r] = "idle" /\ ~RanAllChecks(r)
        /\ sem = 0
        /\ repoStatus = EmptyStatus
        /\ printed = <<>>
        /\ mpc \in {"walk", "send", "fatal"}
        /\ Cardinality(Discovered) <= 1
        /\ wg = Cardinality(Discovered)

\* C21 as stated: with config.Parallelism = 0 and a repository in the tree
\* nothing is ever started or reported, and main, once at the send for the
\* first repository, stays blocked in it for ever.
C21_BlocksForever ==
    /\ []NothingStarted
    /\ [][(config.Parallelism = 0 /\ mpc = "send") => mpc' = "send"]_vars

\* C21 amended: with config.Parallelism = 0 and a repository in the tree
\* nothing is ever started or reported; main comes to the send for the first
\* repository, the send never goes through, and as no goroutine exists the
\* runtime then ends the process with the fatal deadlock error.
C21_ZeroParallelismNeverAdmits ==
    /\ []NothingStarted
    /\ [][(config.Parallelism = 0 /\ mpc \in {"send", "fatal"}) =>
              /\ mpc' \in {"send", "fatal"}
              /\ mpc = "fatal" => mpc' = "fatal"
              /\ UNCHANGED <<walkVars, wg, sem, pc>>]_vars
    /\ (config.Parallelism = 0 /\ HasRepository) ~> (mpc = "fatal")

\* main was blocked in the send for the first repository with no goroutine
\* started, and the process has been ended.
C21_Witness ==
    /\ config.Parallelism = 0
    /\ mpc = "fatal"
    /\ Cardinality(Discovered) = 1
    /\ wg = 1 /\ sem = 0
    /\ \A r \in RepoDirs : pc[r] = "idle"

====
